---------------------------- MODULE Spec2Model ----------------------------
(***************************************************************************)
(* A model of streamlit_app.py: the output normalizer (clean_json_output), *)
(* the judge's verdict parsing (evaluate_with_llm_judge), the excerpt of a *)
(* document (locate_table), the stage graph of setup_crew and the run that *)
(* main() drives.                                                          *)
(*                                                                         *)
(* Texts are sequences of tokens.  Every token stands for one fixed piece  *)
(* of text, so that the searches of the code (regular expressions, split,  *)
(* startswith) act on token sequences as they act on the characters:       *)
(*   "BT"   three backticks      "json"  the fence label                    *)
(*   "NL"   a line break         "{" "}" the braces                         *)
(*   "K"    a key and its colon, "a":    "1"     a JSON number              *)
(*   ","    a comma              "x"     a word of prose                    *)
(* The texts of the documents (locate_table) are sequences of characters:  *)
(*   "a" "b"  two letters        "SP"    a blank                            *)
(***************************************************************************)
EXTENDS Integers, Sequences, FiniteSets

\* ------------------------------------------------------------------------
\* Bounds of the model
\* ------------------------------------------------------------------------

\* Longest prose, in chunks, in front of the core of a normalizer input.
MaxPre == 2

\* Longest prose, in chunks, behind the core of a normalizer input.
MaxPost == 1

\* Longest response of the judge model, in chunks.
MaxJudgeChunks == 4

\* The runs of main() in one behaviour.
MaxRuns == 2

\* Longest prose, in chunks, in front of the core of the annotation stage's
\* output in a run of main().
MaxOutPre == 1

\* Longest document text handed to locate_table, in characters.
MaxDocLen == 4

\* Longest header handed to locate_table, in characters.
MaxHeaderLen == 2

\* ------------------------------------------------------------------------
\* Sequence helpers
\* ------------------------------------------------------------------------

\* s[i], or "EOT" past the end of the text.
At(s, i) == IF i >= 1 /\ i <= Len(s) THEN s[i] ELSE "EOT"

\* The sequences of at most n elements of S.
SeqsUpTo(S, n) == UNION {[1..k -> S] : k \in 0..n}

RECURSIVE Flatten(_)
\* The concatenation of a sequence of sequences.
Flatten(ss) == IF ss = <<>> THEN <<>> ELSE Head(ss) \o Flatten(Tail(ss))

\* ------------------------------------------------------------------------
\* json.loads, on token sequences
\* ------------------------------------------------------------------------

\* The position of the first token at or after i that is not JSON white
\* space (the line break is the only white space among the tokens).
RECURSIVE SkipWs(_, _)
SkipWs(s, i) == IF At(s, i) = "NL" THEN SkipWs(s, i + 1) ELSE i

NoParse == [ok |-> FALSE, value |-> <<>>, next |-> 0]

\* A parsed object: json.loads keeps one value per key, the last one.
ObjValue(members) ==
    IF members = <<>> THEN <<"{", "}">> ELSE <<"{", "a">> \o members \o <<"}">>

RECURSIVE ParseValue(_, _)
RECURSIVE ParseMembers(_, _)

\* A JSON value starting at token i: a number or an object.
ParseValue(s, i) ==
    CASE At(s, i) = "1" -> [ok |-> TRUE, value |-> <<"1">>, next |-> i + 1]
      [] At(s, i) = "{" ->
            LET j == SkipWs(s, i + 1)
            IN  IF At(s, j) = "}"
                THEN [ok |-> TRUE, value |-> ObjValue(<<>>), next |-> j + 1]
                ELSE ParseMembers(s, j)
      [] OTHER -> NoParse

\* The members of an object from token i (a key is expected there) to its
\* closing brace: key value { , key value } "}".
ParseMembers(s, i) ==
    IF At(s, i) # "K" THEN NoParse
    ELSE LET v == ParseValue(s, SkipWs(s, i + 1))
             j == SkipWs(s, v.next)
         IN  IF ~v.ok THEN NoParse
             ELSE CASE At(s, j) = "}" ->
                         [ok |-> TRUE, value |-> ObjValue(v.value), next |-> j + 1]
                    [] At(s, j) = "," -> ParseMembers(s, SkipWs(s, j + 1))
                    [] OTHER -> NoParse

\* json.loads(s): one value, white space around it, nothing else; ok is
\* FALSE where json.loads raises JSONDecodeError.
json_loads(s) ==
    LET v == ParseValue(s, SkipWs(s, 1))
    IN  IF v.ok /\ SkipWs(s, v.next) = Len(s) + 1
        THEN [ok |-> TRUE, value |-> v.value]
        ELSE [ok |-> FALSE, value |-> <<>>]

\* ------------------------------------------------------------------------
\* The two searches of clean_json_output
\* ------------------------------------------------------------------------

NoMatch == [found |-> FALSE, group |-> <<>>]

\* Whether the fence opener and a brace (BT json NL {) start at token i.
FenceOpensAt(s, i) ==
    /\ At(s, i) = "BT"
    /\ At(s, i + 1) = "json"
    /\ At(s, i + 2) = "NL"
    /\ At(s, i + 3) = "{"

\* Whether a brace and the fence closer (} NL BT) start at token e.
FenceClosesAt(s, e) ==
    /\ At(s, e) = "}"
    /\ At(s, e + 1) = "NL"
    /\ At(s, e + 2) = "BT"

\* The ends the group of the fenced search may have when it starts at i.
FenceEnds(s, i) == {e \in (i + 4)..Len(s) : FenceClosesAt(s, e)}

\* A fenced search whose group is greedy (.* for .*?): the last closer.
FencedGroupEnd_Greedy(ends) == CHOOSE e \in ends : \A f \in ends : e >= f

\* The end the fenced search takes among the candidates: .*? is lazy.
FencedGroupEnd(ends) == CHOOSE e \in ends : \A f \in ends : e <= f

\* re.search for BT json NL ( { .*? } ) NL BT with re.DOTALL: the leftmost opener
\* that some closer follows, and from its brace the shortest group.
re_search_fenced(s) ==
    LET starts == {i \in 1..Len(s) : FenceOpensAt(s, i) /\ FenceEnds(s, i) # {}}
    IN  IF starts = {} THEN NoMatch
        ELSE LET i == CHOOSE a \in starts : \A b \in starts : a <= b
             IN  [found |-> TRUE,
                  group |-> SubSeq(s, i + 3, FencedGroupEnd(FenceEnds(s, i)))]

\* re.search for { .* } with re.DOTALL: from the first "{" to the last "}"
\* behind it (.* is greedy).
re_search_braces(s) ==
    LET opens == {i \in 1..Len(s) : s[i] = "{"}
    IN  IF opens = {} THEN NoMatch
        ELSE LET a == CHOOSE i \in opens : \A k \in opens : i <= k
                 closes == {i \in (a + 1)..Len(s) : s[i] = "}"}
             IN  IF closes = {} THEN NoMatch
                 ELSE LET b == CHOOSE i \in closes : \A k \in closes : i >= k
                      IN  [found |-> TRUE, group |-> SubSeq(s, a, b)]

\* ------------------------------------------------------------------------
\* clean_json_output
\* ------------------------------------------------------------------------

\* What a call of clean_json_output does: it returns value, or raises exc;
\* attempted lists the strategies it tried, in order; st_error tells
\* whether it wrote its own "Failed to parse JSON" message to the page.
Returned(v, tried) ==
    [kind |-> "return", value |-> v, exc |-> "none",
     attempted |-> tried, st_error |-> FALSE]

Raised(e, tried) ==
    [kind |-> "raise", value |-> <<>>, exc |-> e,
     attempted |-> tried, st_error |-> TRUE]

\* A normalizer that stops after the fenced search: no brace search.
clean_json_output_NoBraceSearch(raw) ==
    LET direct == json_loads(raw)
        fenced == re_search_fenced(raw)
    IN  IF direct.ok THEN Returned(direct.value, <<1>>)
        ELSE IF fenced.found
        THEN LET p == json_loads(fenced.group)
             IN  IF p.ok THEN Returned(p.value, <<1, 2>>)
                 ELSE Raised("JSONDecodeError", <<1, 2>>)
        ELSE Raised("ValueError", <<1, 2>>)

\* A normalizer that answers with the empty object where nothing parses.
clean_json_output_EmptyDefault(raw) ==
    LET direct == json_loads(raw)
        fenced == re_search_fenced(raw)
        braces == re_search_braces(raw)
        p == IF direct.ok THEN direct
             ELSE IF fenced.found THEN json_loads(fenced.group)
             ELSE IF braces.found THEN json_loads(braces.group)
             ELSE [ok |-> FALSE, value |-> <<>>]
    IN  IF p.ok THEN Returned(p.value, <<1, 2, 3>>)
        ELSE Returned(<<"{", "}">>, <<1, 2, 3>>)

clean_json_output(raw) ==
    LET direct == json_loads(raw)
        fenced == re_search_fenced(raw)
        braces == re_search_braces(raw)
    IN  IF direct.ok THEN Returned(direct.value, <<1>>)
        ELSE IF fenced.found
        THEN LET p == json_loads(fenced.group)
             IN  IF p.ok THEN Returned(p.value, <<1, 2>>)
                 ELSE Raised("JSONDecodeError", <<1, 2>>)
        ELSE IF braces.found
        THEN LET p == json_loads(braces.group)
             IN  IF p.ok THEN Returned(p.value, <<1, 2, 3>>)
                 ELSE Raised("JSONDecodeError", <<1, 2, 3>>)
        ELSE Raised("ValueError", <<1, 2, 3>>)

\* ------------------------------------------------------------------------
\* evaluate_with_llm_judge: the parsing of the judge's response
\*
\* The tokens of a response: "Score:" and "Evaluation:" (the two markers,
\* colon included), ":" (a colon), "NL" (a line break), "SP" (a blank),
\* "-" (a minus sign), "8" and "3" (digits), "w" (a word).
\* ------------------------------------------------------------------------

Digits == {"8", "3"}

DigitValue(d) == IF d = "8" THEN 8 ELSE 3

\* text.split('\n'): the lines of a text, at least one.
RECURSIVE SplitLines(_)
SplitLines(text) ==
    LET breaks == {i \in 1..Len(text) : text[i] = "NL"}
    IN  IF breaks = {} THEN <<text>>
        ELSE LET b == CHOOSE i \in breaks : \A k \in breaks : i <= k
             IN  <<SubSeq(text, 1, b - 1)>>
                 \o SplitLines(SubSeq(text, b + 1, Len(text)))

\* line.startswith(marker), for a marker that is one token.
StartsWith(line, marker) == At(line, 1) = marker

\* The letters that a token with a colon at its end has in front of it.
BeforeColon(tok) ==
    CASE tok = "Score:" -> <<"Score">>
      [] tok = "Evaluation:" -> <<"Evaluation">>
      [] OTHER -> <<>>

HasColon(tok) == tok \in {":", "Score:", "Evaluation:"}

\* line.split(':')[1] for a line that starts with "Score:": the text from
\* behind the marker's colon to the next colon of the line.
SecondColonPiece(line) ==
    LET colons == {i \in 2..Len(line) : HasColon(line[i])}
    IN  IF colons = {} THEN SubSeq(line, 2, Len(line))
        ELSE LET c == CHOOSE i \in colons : \A k \in colons : i <= k
             IN  SubSeq(line, 2, c - 1) \o BeforeColon(line[c])

\* line.split('Evaluation:')[1] for a line that starts with "Evaluation:":
\* the text from behind the marker to the next "Evaluation:" of the line.
SecondEvaluationPiece(line) ==
    LET marks == {i \in 2..Len(line) : line[i] = "Evaluation:"}
    IN  IF marks = {} THEN SubSeq(line, 2, Len(line))
        ELSE LET c == CHOOSE i \in marks : \A k \in marks : i <= k
             IN  SubSeq(line, 2, c - 1)

\* str.strip(): without the blanks at both ends.
RECURSIVE Strip(_)
Strip(t) ==
    IF t = <<>> THEN t
    ELSE IF Head(t) = "SP" THEN Strip(Tail(t))
    ELSE IF t[Len(t)] = "SP" THEN Strip(SubSeq(t, 1, Len(t) - 1))
    ELSE t

\* The value of a sequence of digits.
RECURSIVE DigitsValue(_)
DigitsValue(ds) ==
    IF ds = <<>> THEN 0
    ELSE 10 * DigitsValue(SubSeq(ds, 1, Len(ds) - 1)) + DigitValue(ds[Len(ds)])

AllDigits(t) == t # <<>> /\ \A i \in 1..Len(t) : t[i] \in Digits

\* int(t): ok is FALSE where int raises ValueError.
int(t) ==
    IF AllDigits(t) THEN [ok |-> TRUE, value |-> DigitsValue(t)]
    ELSE IF t # <<>> /\ Head(t) = "-" /\ AllDigits(Tail(t))
    THEN [ok |-> TRUE, value |-> 0 - DigitsValue(Tail(t))]
    ELSE [ok |-> FALSE, value |-> 0]

\* ' '.join(pieces)
RECURSIVE JoinWithBlank(_)
JoinWithBlank(pieces) ==
    IF pieces = <<>> THEN <<>>
    ELSE IF Len(pieces) = 1 THEN pieces[1]
    ELSE pieces[1] \o <<"SP">> \o JoinWithBlank(Tail(pieces))

\* The lines of a sequence of lines that start with marker, in order.
LinesStartingWith(lines, marker) ==
    SelectSeq(lines, LAMBDA l : StartsWith(l, marker))

Verdict(s, e) == [given |-> TRUE, score |-> s, evaluation |-> e]

NoVerdict == [given |-> FALSE, score |-> 0, evaluation |-> <<>>]

\* The verdict of the except branch.
DefaultVerdict == Verdict(50, <<"Could not parse evaluation">>)

\* Lines 134-143: the try block and its except branch.  next() on no
\* "Score:" line and int() on no integer raise; both end in the default.
ParseJudgeResponse(response_text) ==
    LET lines == SplitLines(response_text)
        score_lines == LinesStartingWith(lines, "Score:")
        eval_lines == LinesStartingWith(lines, "Evaluation:")
    IN  IF score_lines = <<>> THEN DefaultVerdict
        ELSE LET score == int(Strip(SecondColonPiece(score_lines[1])))
                 evaluation ==
                     JoinWithBlank([i \in 1..Len(eval_lines) |->
                                      Strip(SecondEvaluationPiece(eval_lines[i]))])
             IN  IF score.ok THEN Verdict(score.value, evaluation)
                 ELSE DefaultVerdict

\* ------------------------------------------------------------------------
\* locate_table, on character sequences
\* ------------------------------------------------------------------------

\* Whether sub stands in t from index i on (indices count from 0, as in
\* Python).
OccursAt(t, sub, i) ==
    /\ i >= 0
    /\ i + Len(sub) <= Len(t)
    /\ SubSeq(t, i + 1, i + Len(sub)) = sub

\* str.find: the lowest index where sub stands in t, -1 if there is none.
find(t, sub) ==
    LET hits == {i \in 0..Len(t) : OccursAt(t, sub, i)}
    IN  IF hits = {} THEN -1
        ELSE CHOOSE i \in hits : \A j \in hits : i <= j

\* t[a:b] for indices that are not negative: empty when b <= a.
Slice(t, a, b) ==
    LET hi == IF b < Len(t) THEN b ELSE Len(t)
    IN  IF a >= hi THEN <<>> ELSE SubSeq(t, a + 1, hi)

NotLocated == [kind |-> "none", value |-> <<>>, header |-> "none"]

\* Line 93: the return of locate_table.
Excerpt(v) == [kind |-> "return", value |-> v, header |-> "none"]

\* Lines 90, 92: the ValueError of locate_table, naming a header.
HeaderNotFound(h) == [kind |-> "raise", value |-> <<>>, header |-> h]

\* Lines 86-93.
locate_table(text, start_header, end_header) ==
    LET start_index == find(text, start_header)
        end_index == find(text, end_header)
    IN  IF start_index = -1 THEN HeaderNotFound("start")
        ELSE IF end_index = -1 THEN HeaderNotFound("end")
        ELSE Excerpt(Strip(Slice(text, start_index, end_index)))

\* ------------------------------------------------------------------------
\* State
\* ------------------------------------------------------------------------

VARIABLES
    raw,        \* the text handed to clean_json_output
    shape,      \* how that text was put together: prose, core, prose
    cj,         \* what clean_json_output did with it (NotCalled before)
    response_text,  \* the judge model's response
    verdict,    \* the verdict evaluate_with_llm_judge returned (NoVerdict before)
    pc,         \* where main() stands: "idle" between two runs
    run,        \* the number of the current run, 0 before the first
    outcome,    \* "none", "running", "completed", "halted" or "failed"
    trace,      \* what the current run has done so far, in order
    messages,   \* the errors and warnings the current run wrote to the page
    viz_dir,    \* the directory visualizations/: whether it exists, and the
                \* runs that wrote the image files in it
    executed,   \* the stages the crew has run, each with the upstream
                \* results it was given
    shown,      \* what the current run rendered on the page
    pdf_texts,  \* the texts of the PDF files of the folder, in order
    start_header,   \* the header an excerpt starts with
    end_header,     \* the header an excerpt ends in front of
    extracted_texts \* what locate_table did with each text, in order, up
                    \* to the first call that raised

vars == <<raw, shape, cj, response_text, verdict,
          pc, run, outcome, trace, messages, viz_dir, executed, shown,
          pdf_texts, start_header, end_header, extracted_texts>>

\* The variables of the extraction.
doc_vars == <<pdf_texts, start_header, end_header, extracted_texts>>

\* Lines 35-36: the two headers of main(), two different strings of which
\* neither holds the other.
START_HEADER_PATTERN == <<"a">>

END_HEADER_PATTERN == <<"b">>

\* Nothing has been extracted.
NoDocuments ==
    /\ pdf_texts = <<>>
    /\ extracted_texts = <<>>
    /\ start_header = START_HEADER_PATTERN
    /\ end_header = END_HEADER_PATTERN

\* The variables of main() and of the file system.
run_vars == <<pc, run, outcome, trace, messages, viz_dir, executed, shown>>

NothingShown == [images |-> {}, report |-> FALSE, verdict |-> FALSE]

NoDirectory == [exists |-> FALSE, images |-> {}]

\* No run is under way and none has been: the application just started,
\* in a working directory without visualizations/.
NoRun ==
    /\ pc = "idle"
    /\ run = 0
    /\ outcome = "none"
    /\ trace = <<>>
    /\ messages = <<>>
    /\ viz_dir = NoDirectory
    /\ executed = <<>>
    /\ shown = NothingShown

NotCalled ==
    [kind |-> "none", value |-> <<>>, exc |-> "none",
     attempted |-> <<>>, st_error |-> FALSE]

\* ------------------------------------------------------------------------
\* The texts a model call may answer with
\* ------------------------------------------------------------------------

FenceOpener == <<"BT", "json", "NL">>
FenceCloser == <<"NL", "BT">>

\* obj inside a fenced block labeled as JSON.
Fenced(obj) == FenceOpener \o obj \o FenceCloser

\* Pieces of prose: the fence markers, the braces, a word, and a whole
\* fenced block holding the empty object.
ProseChunks ==
    {FenceOpener, FenceCloser, <<"{">>, <<"}">>, <<"x">>, Fenced(<<"{", "}">>)}

\* JSON objects, as text.
Objects ==
    { <<"{", "K", "1", "}">>,
      <<"{", "NL", "K", "{", "}", "NL", "}">>,
      <<"{", "K", "1", ",", "K", "{", "}", "}">> }

\* Texts in braces that are no JSON.
BadObjects == { <<"{", "x", "}">>, <<"{", "K", "1", "}", "}">> }

\* The core of a text: nothing, a bare JSON value, or a fenced block.
Cores ==
    {[kind |-> "none", obj |-> <<>>]}
    \cup {[kind |-> "bare", obj |-> o] : o \in Objects \cup {<<"1">>}}
    \cup {[kind |-> "fenced", obj |-> o] : o \in Objects \cup BadObjects}

CoreText(c) == IF c.kind = "fenced" THEN Fenced(c.obj) ELSE c.obj

\* The shapes of at most p chunks of prose, a core, at most q chunks.
Shapes(p, q) ==
    {[pre |-> Flatten(a), core |-> c, post |-> Flatten(b)] :
        a \in SeqsUpTo(ProseChunks, p), c \in Cores,
        b \in SeqsUpTo(ProseChunks, q)}

ShapeText(sh) == sh.pre \o CoreText(sh.core) \o sh.post

NoShape == [pre |-> <<>>, core |-> [kind |-> "none", obj |-> <<>>], post |-> <<>>]

\* ------------------------------------------------------------------------
\* The normalizer alone: one call of clean_json_output on each text
\* ------------------------------------------------------------------------

NormInit ==
    /\ shape \in Shapes(MaxPre, MaxPost)
    /\ raw = ShapeText(shape)
    /\ cj = NotCalled
    /\ response_text = <<>>
    /\ verdict = NoVerdict
    /\ NoRun
    /\ NoDocuments

CleanJsonOutput ==
    /\ cj = NotCalled
    /\ cj' = clean_json_output(raw)
    /\ UNCHANGED <<raw, shape, response_text, verdict, run_vars, doc_vars>>

NormNext == CleanJsonOutput

NormSpec == NormInit /\ [][NormNext]_vars

\* ------------------------------------------------------------------------
\* C1, C2: the strategies of the normalizer
\* ------------------------------------------------------------------------

ParseFailed == [ok |-> FALSE, value |-> <<>>]

\* The three strategies, each on its own: a parsed value or a failure.
Strategy1(t) == json_loads(t)

Strategy2(t) ==
    LET m == re_search_fenced(t)
    IN  IF m.found THEN json_loads(m.group) ELSE ParseFailed

Strategy3(t) ==
    LET m == re_search_braces(t)
    IN  IF m.found THEN json_loads(m.group) ELSE ParseFailed

\* The first success of the ordered chain 1, 2, 3.
FirstSuccess(t) ==
    IF Strategy1(t).ok THEN Strategy1(t)
    ELSE IF Strategy2(t).ok THEN Strategy2(t)
    ELSE Strategy3(t)

\* Strategy 1 fails, a fenced block is found, its interior does not parse.
FencedInteriorBad(t) ==
    /\ ~Strategy1(t).ok
    /\ re_search_fenced(t).found
    /\ ~Strategy2(t).ok

\* The call returns the chain's first success and raises when there is none.
ResultIsFirstSuccess ==
    LET c == FirstSuccess(raw)
    IN  IF c.ok THEN cj.kind = "return" /\ cj.value = c.value
        ELSE cj.kind = "raise"

\* C1 as claimed: the call returns the value of the first strategy that
\* succeeds and raises only when all three fail; and when strategy 1 fails
\* and a fenced block is found whose interior does not parse, strategy 3 is
\* still attempted and its value returned if it parses.
C1_StrategiesAsClaimed ==
    cj # NotCalled =>
        /\ ResultIsFirstSuccess
        /\ FencedInteriorBad(raw) =>
              /\ cj.attempted = <<1, 2, 3>>
              /\ Strategy3(raw).ok =>
                    cj.kind = "return" /\ cj.value = Strategy3(raw).value

\* C1 as amended: the strategies are tried in the order 1, 2, 3, the call
\* returns the value of the first that succeeds and raises only when all
\* three fail; but when a fenced block is found whose interior does not
\* parse, the call raises at once and strategy 3 is not attempted (it could
\* not have parsed there).
C1_FirstSuccessWins ==
    cj # NotCalled =>
        /\ ResultIsFirstSuccess
        /\ cj.attempted \in {<<1>>, <<1, 2>>, <<1, 2, 3>>}
        /\ FencedInteriorBad(raw) =>
              /\ cj.attempted = <<1, 2>>
              /\ cj.kind = "raise"
              /\ ~Strategy3(raw).ok

\* C1's case: a fenced block with an interior that does not parse, in a
\* text with braces around it, has been handed to the normalizer.
C1_Witness ==
    /\ cj # NotCalled
    /\ FencedInteriorBad(raw)
    /\ shape.pre = <<"{">>
    /\ shape.post = <<"}">>
    /\ cj.kind = "raise"

\* The prose in front of the fenced block holds no fence opener that a
\* brace follows.
NoOpenerInFront == \A i \in 1..Len(shape.pre) : ~FenceOpensAt(raw, i)

\* A JSON object in a fenced block is the core of the text.
FencedObject == shape.core.kind = "fenced" /\ shape.core.obj \in Objects

\* The call returned the parse of the whole fenced interior.
ReturnedInterior ==
    /\ cj.kind = "return"
    /\ cj.value = json_loads(shape.core.obj).value

\* C2 as claimed: for a JSON object in a fenced block labeled as JSON the
\* call returns the parse of the whole interior, whatever prose precedes
\* or follows the fence.
C2_FencedAsClaimed ==
    (cj # NotCalled /\ FencedObject) => ReturnedInterior

\* C2 as amended: for a JSON object in a fenced block labeled as JSON the
\* call returns the parse of the whole interior, whatever prose follows the
\* fence and whatever prose precedes it that holds no JSON fence opener
\* directly followed by a brace.
C2_FencedInterior ==
    (cj # NotCalled /\ FencedObject /\ NoOpenerInFront) => ReturnedInterior

\* C2's case: a fenced JSON object between prose with braces and prose
\* with another fenced block has been normalized.
C2_Witness ==
    /\ cj # NotCalled
    /\ FencedObject
    /\ shape.pre = <<"{", "x">>
    /\ shape.post = Fenced(<<"{", "}">>)
    /\ ReturnedInterior

\* ------------------------------------------------------------------------
\* The judge's parsing alone: one response, parsed once
\* ------------------------------------------------------------------------

\* Pieces of a response: the markers, a well-formed score line and a
\* well-formed evaluation line, and the single tokens.
JudgeChunks ==
    { <<"Score:">>, <<"Score:", "SP", "8", "3">>, <<"Evaluation:", "SP", "w">>,
      <<"NL">>, <<"SP">>, <<"w">>, <<"8">>, <<"-">>, <<":">> }

\* The responses of at most n chunks.
Responses(n) == {Flatten(a) : a \in SeqsUpTo(JudgeChunks, n)}

JudgeInit ==
    /\ response_text \in Responses(MaxJudgeChunks)
    /\ verdict = NoVerdict
    /\ raw = <<>>
    /\ shape = NoShape
    /\ cj = NotCalled
    /\ NoRun
    /\ NoDocuments

ParseResponse ==
    /\ ~verdict.given
    /\ verdict' = ParseJudgeResponse(response_text)
    /\ UNCHANGED <<raw, shape, cj, response_text, run_vars, doc_vars>>

JudgeNext == ParseResponse

JudgeSpec == JudgeInit /\ [][JudgeNext]_vars

\* ------------------------------------------------------------------------
\* C7, C8: the verdict
\* ------------------------------------------------------------------------

\* The verdict the claim describes: the integer that trails the marker of
\* the first "Score:" line, with the contents of every "Evaluation:" line
\* in their order; the default when there is no such line or no integer.
ClaimedVerdict(text) ==
    LET lines == SplitLines(text)
        score_lines == LinesStartingWith(lines, "Score:")
        eval_lines == LinesStartingWith(lines, "Evaluation:")
    IN  IF score_lines = <<>> THEN DefaultVerdict
        ELSE LET score == int(Strip(Tail(score_lines[1])))
             IN  IF score.ok
                 THEN Verdict(score.value,
                              JoinWithBlank([i \in 1..Len(eval_lines) |->
                                               Strip(Tail(eval_lines[i]))]))
                 ELSE DefaultVerdict

\* C7 as claimed: the parsing never raises, and for every response the
\* verdict is the trailing integer of the first "Score:" line with the
\* contents of all "Evaluation:" lines in order, or else the default
\* (50, "Could not parse evaluation").
C7_VerdictAsClaimed ==
    verdict.given => verdict = ClaimedVerdict(response_text)

\* C8 as claimed: every verdict has a score in [0,100].
C8_ScoreInRange ==
    verdict.given => verdict.score \in 0..100

\* ------------------------------------------------------------------------
\* setup_crew: the stage graph
\* ------------------------------------------------------------------------

\* A crew whose visualization task is listed in front of the analysis task.
tasks_VisualizationFirst ==
    <<"structure", "visualization", "analysis", "report">>

\* Crew(tasks=[...], process=Process.sequential): the tasks in the order
\* in which the crew runs them.
tasks == <<"structure", "analysis", "visualization", "report">>

\* Task(context=[...]): the tasks whose output a task is given.
context(task) ==
    CASE task = "structure" -> {}
      [] task = "analysis" -> {"structure"}
      [] task = "visualization" -> {"analysis"}
      [] task = "report" -> {"analysis"}

\* The tasks that have an output after the stages in done have run.
HaveOutput(done) == {done[i].task : i \in 1..Len(done)}

\* ------------------------------------------------------------------------
\* C11: the excerpt of a document
\* ------------------------------------------------------------------------

\* The characters of a document text and of a header.
DocChars == {"a", "b", "SP"}

HeaderChars == {"a", "b"}

\* The document texts of at most n characters.
DocTexts(n) == SeqsUpTo(DocChars, n)

\* The headers of at most n characters; a header is not empty.
Headers(n) == SeqsUpTo(HeaderChars, n) \ {<<>>}

\* Whether an end of x is a start of y: the two can overlap in a text.
Overlap(x, y) ==
    \E k \in 1..Len(x) :
        /\ k <= Len(y)
        /\ SubSeq(x, Len(x) - k + 1, Len(x)) = SubSeq(y, 1, k)

\* Two headers that no text holds overlapping, like the two of lines 35-36.
Apart(x, y) ==
    /\ ~Overlap(x, y)
    /\ ~Overlap(y, x)
    /\ \A i \in 0..Len(x) : ~OccursAt(x, y, i)
    /\ \A i \in 0..Len(y) : ~OccursAt(y, x, i)

\* One document text and two headers apart, nothing located yet.
ExtractInit ==
    /\ \E text \in DocTexts(MaxDocLen) : pdf_texts = <<text>>
    /\ start_header \in Headers(MaxHeaderLen)
    /\ end_header \in Headers(MaxHeaderLen)
    /\ Apart(start_header, end_header)
    /\ extracted_texts = <<>>
    /\ raw = <<>>
    /\ shape = NoShape
    /\ cj = NotCalled
    /\ response_text = <<>>
    /\ verdict = NoVerdict
    /\ NoRun

LocateTable ==
    /\ extracted_texts = <<>>
    /\ extracted_texts' = <<locate_table(pdf_texts[1], start_header, end_header)>>
    /\ UNCHANGED <<raw, shape, cj, response_text, verdict, run_vars,
                   pdf_texts, start_header, end_header>>

ExtractNext == LocateTable

ExtractSpec == ExtractInit /\ [][ExtractNext]_vars

\* Whether the header stands somewhere in the text.
Present(text, header) == \E i \in 0..Len(text) : OccursAt(text, header, i)

\* The excerpts of a text that begin at an occurrence of the start header
\* and end at an occurrence of the end header behind it, with blanks at
\* the two ends removed; the end header itself may be left out or kept.
BoundedExcerpts(text, sh, eh) ==
    UNION { { Strip(Slice(text, i, j)), Strip(Slice(text, i, j + Len(eh))) } :
            <<i, j>> \in { p \in (0..Len(text)) \X (0..Len(text)) :
                             /\ OccursAt(text, sh, p[1])
                             /\ OccursAt(text, eh, p[2])
                             /\ p[1] + Len(sh) <= p[2] } }

\* The first end header stands in front of the first start header.
EndHeaderFirst(text, sh, eh) ==
    /\ Present(text, sh)
    /\ Present(text, eh)
    /\ find(text, eh) < find(text, sh)

\* C11, first half: locate_table raises exactly when the start header or
\* the end header is absent from the text.
RaisesExactlyWhenAbsent ==
    extracted_texts # <<>> =>
        (extracted_texts[1].kind = "raise"
            <=> (~Present(pdf_texts[1], start_header)
                 \/ ~Present(pdf_texts[1], end_header)))

\* C11: for every document text and pair of headers, locate_table raises
\* exactly when the start header or the end header is absent from the
\* text, and whenever both are present it returns the excerpt that begins
\* at the start header and ends at the end header, also when the first
\* occurrence of the end header lies in front of the start header.
C11_ExcerptAsClaimed ==
    extracted_texts # <<>> =>
        LET text == pdf_texts[1]
            r == extracted_texts[1]
        IN  /\ r.kind = "raise"
                  <=> (~Present(text, start_header) \/ ~Present(text, end_header))
            /\ (Present(text, start_header) /\ Present(text, end_header))
                  => /\ r.kind = "return"
                     /\ r.value \in BoundedExcerpts(text, start_header, end_header)

\* With the end header first, nothing is raised and nothing that begins at
\* the start header is returned.
EndFirstReturnsNoExcerpt ==
    (/\ extracted_texts # <<>>
     /\ EndHeaderFirst(pdf_texts[1], start_header, end_header))
        => /\ extracted_texts[1].kind = "return"
           /\ extracted_texts[1].value = <<>>

\* Both headers present with the first start header in front of the first
\* end header: the excerpt is the claimed one.
InOrderAsClaimed ==
    (/\ extracted_texts # <<>>
     /\ find(pdf_texts[1], start_header) >= 0
     /\ find(pdf_texts[1], end_header) > find(pdf_texts[1], start_header))
        => /\ extracted_texts[1].kind = "return"
           /\ extracted_texts[1].value
                  \in BoundedExcerpts(pdf_texts[1], start_header, end_header)

\* ------------------------------------------------------------------------
\* main(): one run per click on "Analyze PDFs"
\* ------------------------------------------------------------------------

\* What the annotation stage may answer.
AnalysisOutputs == Shapes(MaxOutPre, 0)

\* What the judge model may answer in a run.
SampleResponses ==
    { <<"Score:", "SP", "8", "3", "NL", "Evaluation:", "SP", "w">>,
      <<"Score:", "SP", "8", "8", "8">>,
      <<"w">> }

Message(by, level, text) == [by |-> by, level |-> level, text |-> text]

\* Streamlit runs the script anew on a click: the page is empty and the
\* variables of main() are unset.
FreshPage ==
    /\ trace' = <<>>
    /\ executed' = <<>>
    /\ shown' = NothingShown
    /\ raw' = <<>>
    /\ shape' = NoShape
    /\ cj' = NotCalled
    /\ response_text' = <<>>
    /\ verdict' = NoVerdict
    /\ pdf_texts' = <<>>
    /\ extracted_texts' = <<>>
    /\ UNCHANGED <<start_header, end_header>>

\* Lines 523-524: the except branch of main() around the whole run.
TopLevelHandler ==
    /\ messages' = Append(messages, Message("main", "error", "Analysis failed"))
    /\ pc' = "idle"
    /\ outcome' = "failed"

\* Lines 425-427: a click with no folder path given.
AnalyzeWithoutFolder ==
    /\ pc = "idle"
    /\ FreshPage
    /\ messages' = <<Message("main", "warning", "Please enter a folder path")>>
    /\ outcome' = "none"
    /\ UNCHANGED <<pc, run, viz_dir>>

\* Lines 424, 429-430: a click with a folder path starts a run.
StartRun ==
    /\ pc = "idle"
    /\ run < MaxRuns
    /\ FreshPage
    /\ messages' = <<>>
    /\ run' = run + 1
    /\ pc' = "extract"
    /\ outcome' = "running"
    /\ UNCHANGED viz_dir

\* The texts of the PDF files of a folder: no file, one document with its
\* excerpt between the headers, one without the start header, one without
\* the end header, one whose end header stands in front of the start
\* header, and folders of two documents.
SampleFolders ==
    { <<>>,
      << <<"a", "SP", "b">> >>,
      << <<"SP", "b">> >>,
      << <<"a", "SP">> >>,
      << <<"b", "a", "SP">> >>,
      << <<"a", "SP", "b">>, <<"a", "SP">>, <<"a", "b">> >>,
      << <<"a", "b">>, <<"a", "SP", "SP", "b">> >> }

\* Lines 433-436: locate_table on each text, in order.
LocateAll(texts) ==
    [i \in 1..Len(texts) |-> locate_table(texts[i], start_header, end_header)]

\* Whether a call of the list raises.
SomeRaise(results) == \E i \in 1..Len(results) : results[i].kind = "raise"

\* The results up to the first call that raises, that call included.
UpToFirstRaise(results) ==
    LET first == CHOOSE i \in 1..Len(results) :
                     /\ results[i].kind = "raise"
                     /\ \A j \in 1..(i - 1) : results[j].kind # "raise"
    IN  SubSeq(results, 1, first)

\* Lines 431-444: the PDF files, their excerpts and their hyperlinks.
ExtractInputs ==
    /\ pc = "extract"
    /\ \E folder \in SampleFolders :
          /\ folder # <<>>
          /\ ~SomeRaise(LocateAll(folder))
          /\ pdf_texts' = folder
          /\ extracted_texts' = LocateAll(folder)
    /\ trace' = Append(trace, "extract")
    /\ pc' = "kickoff"
    /\ UNCHANGED <<raw, shape, cj, response_text, verdict,
                   run, outcome, messages, viz_dir, executed, shown,
                   start_header, end_header>>

\* Lines 432-434: get_pdf_files_from_folder raises FileNotFoundError (no
\* PDF file), or a call of locate_table raises ValueError.
ExtractInputsFails ==
    /\ pc = "extract"
    /\ \E folder \in SampleFolders :
          /\ pdf_texts' = folder
          /\ IF folder = <<>>
             THEN extracted_texts' = <<>>
             ELSE /\ SomeRaise(LocateAll(folder))
                  /\ extracted_texts' = UpToFirstRaise(LocateAll(folder))
    /\ trace' = Append(trace, "input_error")
    /\ TopLevelHandler
    /\ UNCHANGED <<raw, shape, cj, response_text, verdict,
                   run, viz_dir, executed, shown,
                   start_header, end_header>>

\* Lines 447-448: crew.kickoff() runs the next task of the crew, which is
\* given the outputs of its context tasks that exist.
RunStage ==
    /\ pc = "kickoff"
    /\ UNCHANGED doc_vars
    /\ LET task == tasks[Len(executed) + 1]
       IN  /\ executed' = Append(executed,
                  [task |-> task, ctx |-> context(task) \cap HaveOutput(executed)])
           /\ trace' = Append(trace, task)
           /\ IF task = "analysis"
              THEN \E sh \in AnalysisOutputs : shape' = sh /\ raw' = ShapeText(sh)
              ELSE UNCHANGED <<raw, shape>>
    /\ pc' = IF Len(executed) + 1 = Len(tasks) THEN "metrics" ELSE "kickoff"
    /\ UNCHANGED <<cj, response_text, verdict, run, outcome, messages, viz_dir, shown>>

\* Line 448: the model call of the next task raises; kickoff() raises.
StageCallFails ==
    /\ pc = "kickoff"
    /\ UNCHANGED doc_vars
    /\ trace' = Append(trace, "model_call_failed")
    /\ TopLevelHandler
    /\ UNCHANGED <<raw, shape, cj, response_text, verdict,
                   run, viz_dir, executed, shown>>

\* Lines 293-295 and 458-460: the messages of a failed normalization.
MetricsFailureMessages(c) ==
    (IF c.st_error
     THEN <<Message("clean_json_output", "error", "Failed to parse JSON")>>
     ELSE <<>>)
    \o <<Message("main.metrics", "error", "Metrics parsing failed")>>

\* Lines 455-460: metrics = clean_json_output(analysis_task.output.raw);
\* on any exception an error is written and main() returns.
ProcessMetrics ==
    /\ pc = "metrics"
    /\ UNCHANGED doc_vars
    /\ cj' = clean_json_output(raw)
    /\ IF cj'.kind = "return"
       THEN /\ trace' = Append(trace, "metrics_parsed")
            /\ pc' = "prepare"
            /\ UNCHANGED <<messages, outcome>>
       ELSE /\ trace' = Append(trace, "metrics_failed")
            /\ messages' = messages \o MetricsFailureMessages(cj')
            /\ pc' = "idle"
            /\ outcome' = "halted"
    /\ UNCHANGED <<raw, shape, response_text, verdict, run, viz_dir, executed, shown>>

\* Lines 470-472 with makedirs alone: the files of the directory stay.
ClearedDirectory_KeepFiles(d) == [exists |-> TRUE, images |-> d.images]

\* Lines 470-472: rmtree if the directory exists, then makedirs.
ClearedDirectory(d) == [exists |-> TRUE, images |-> {}]

\* Lines 463-472: the script file is written and the directory recreated.
PrepareArtifacts ==
    /\ pc = "prepare"
    /\ UNCHANGED doc_vars
    /\ viz_dir' = ClearedDirectory(viz_dir)
    /\ trace' = Append(trace, "clear_dir")
    /\ pc' = "runpy"
    /\ UNCHANGED <<raw, shape, cj, response_text, verdict,
                   run, outcome, messages, executed, shown>>

\* The directory after a script run that wrote image files, or none.
AfterScript(d, wrote, r) ==
    [d EXCEPT !.images = IF wrote THEN d.images \cup {r} ELSE d.images]

\* Lines 474-478: runpy.run_path; an exception is answered with a warning
\* and leads to the subprocess.
RunInProcess ==
    /\ pc = "runpy"
    /\ UNCHANGED doc_vars
    /\ \E wrote \in BOOLEAN, ok \in BOOLEAN :
          /\ viz_dir' = AfterScript(viz_dir, wrote, run)
          /\ IF ok
             THEN /\ trace' = Append(trace, "runpy_ok")
                  /\ pc' = "render"
                  /\ UNCHANGED messages
             ELSE /\ trace' = Append(trace, "runpy_failed")
                  /\ pc' = "subprocess"
                  /\ messages' = Append(messages,
                         Message("main", "warning", "Runpy failed, trying subprocess"))
    /\ UNCHANGED <<raw, shape, cj, response_text, verdict,
                   run, outcome, executed, shown>>

\* subprocess.run without check=True: a failed script raises nothing.
SubprocessRaises_Unchecked(ok) == FALSE

\* Line 479: subprocess.run(..., check=True) raises CalledProcessError when
\* the script fails.
SubprocessRaises(ok) == ~ok

\* Line 479: the script as a process of its own.
RunSubprocess ==
    /\ pc = "subprocess"
    /\ UNCHANGED doc_vars
    /\ \E wrote \in BOOLEAN, ok \in BOOLEAN :
          /\ viz_dir' = AfterScript(viz_dir, wrote, run)
          /\ trace' = Append(trace, IF ok THEN "subprocess_ok" ELSE "subprocess_failed")
          /\ IF SubprocessRaises(ok)
             THEN TopLevelHandler
             ELSE pc' = "render" /\ UNCHANGED <<messages, outcome>>
    /\ UNCHANGED <<raw, shape, cj, response_text, verdict, run, executed, shown>>

\* Lines 481-489: the image files of the directory, or a warning.
RenderVisualizations ==
    /\ pc = "render"
    /\ UNCHANGED doc_vars
    /\ trace' = Append(trace, "render_visualizations")
    /\ IF viz_dir.exists
       THEN shown' = [shown EXCEPT !.images = viz_dir.images] /\ UNCHANGED messages
       ELSE /\ messages' = Append(messages,
                   Message("main", "warning", "No visualizations generated"))
            /\ UNCHANGED shown
    /\ pc' = "report"
    /\ UNCHANGED <<raw, shape, cj, response_text, verdict,
                   run, outcome, viz_dir, executed>>

\* Lines 491-498: the report.
RenderReport ==
    /\ pc = "report"
    /\ UNCHANGED doc_vars
    /\ trace' = Append(trace, "render_report")
    /\ shown' = [shown EXCEPT !.report = TRUE]
    /\ pc' = "judge"
    /\ UNCHANGED <<raw, shape, cj, response_text, verdict,
                   run, outcome, messages, viz_dir, executed>>

\* Lines 501-518: the judge answers, its response is parsed and shown.
Judge ==
    /\ pc = "judge"
    /\ UNCHANGED doc_vars
    /\ \E r \in SampleResponses :
          /\ response_text' = r
          /\ verdict' = ParseJudgeResponse(r)
    /\ trace' = Append(trace, "judge")
    /\ shown' = [shown EXCEPT !.verdict = TRUE]
    /\ pc' = "links"
    /\ UNCHANGED <<raw, shape, cj, run, outcome, messages, viz_dir, executed>>

\* Line 131: judge_llm.invoke raises.
JudgeCallFails ==
    /\ pc = "judge"
    /\ UNCHANGED doc_vars
    /\ trace' = Append(trace, "judge_call_failed")
    /\ TopLevelHandler
    /\ UNCHANGED <<raw, shape, cj, response_text, verdict,
                   run, viz_dir, executed, shown>>

\* Line 521: the hyperlinks; the run is over.
DisplayHyperlinks ==
    /\ pc = "links"
    /\ UNCHANGED doc_vars
    /\ trace' = Append(trace, "display_hyperlinks")
    /\ pc' = "idle"
    /\ outcome' = "completed"
    /\ UNCHANGED <<raw, shape, cj, response_text, verdict,
                   run, messages, viz_dir, executed, shown>>

\* The application has started: no run yet, no visualizations/ yet.
Init ==
    /\ NoRun
    /\ raw = <<>>
    /\ shape = NoShape
    /\ cj = NotCalled
    /\ response_text = <<>>
    /\ verdict = NoVerdict
    /\ NoDocuments

Next ==
    \/ AnalyzeWithoutFolder
    \/ StartRun
    \/ ExtractInputs
    \/ ExtractInputsFails
    \/ RunStage
    \/ StageCallFails
    \/ ProcessMetrics
    \/ PrepareArtifacts
    \/ RunInProcess
    \/ RunSubprocess
    \/ RenderVisualizations
    \/ RenderReport
    \/ Judge
    \/ JudgeCallFails
    \/ DisplayHyperlinks

Spec == Init /\ [][Next]_vars

\* ------------------------------------------------------------------------
\* What a run has done
\* ------------------------------------------------------------------------

Occurs(e) == \E i \in 1..Len(trace) : trace[i] = e

Count(E) == Cardinality({i \in 1..Len(trace) : trace[i] \in E})

LastEvent == IF trace = <<>> THEN "none" ELSE trace[Len(trace)]

InProcessRuns == {"runpy_ok", "runpy_failed"}

SubprocessRuns == {"subprocess_ok", "subprocess_failed"}

Executions == InProcessRuns \cup SubprocessRuns

\* The steps that work on the metrics or on what was made from them.
DependsOnMetrics ==
    {"visualization", "report", "render_visualizations", "render_report",
     "judge", "judge_call_failed"} \cup Executions

ErrorMessages == SelectSeq(messages, LAMBDA m : m.level = "error")

AnalysisFailed == Message("main", "error", "Analysis failed")

\* ------------------------------------------------------------------------
\* C3: the stages that depend on the metrics
\* ------------------------------------------------------------------------

\* C3 as claimed: the script and report stages, the script's execution,
\* the rendering and the judge call happen only after the annotation
\* stage's output has been normalized into a JSON object; otherwise the
\* run halts before them.
C3_DependentsAfterValidation ==
    \A i \in 1..Len(trace) :
        trace[i] \in DependsOnMetrics =>
            /\ \E j \in 1..(i - 1) : trace[j] = "metrics_parsed"
            /\ cj.kind = "return"
            /\ Head(cj.value) = "{"

\* ------------------------------------------------------------------------
\* C4: the subprocess fallback
\* ------------------------------------------------------------------------

\* Nothing was rendered, no judge was called, and the top-level handler
\* reported the failure.
FatalRun ==
    /\ shown = NothingShown
    /\ Count({"judge", "judge_call_failed"}) = 0
    /\ outcome = "failed"
    /\ messages # <<>>
    /\ messages[Len(messages)] = AnalysisFailed

BothPathsFailed == Occurs("runpy_failed") /\ Occurs("subprocess_failed")

C5_ClearedAtRunStart ==
    /\ run >= 1 => viz_dir.images \subseteq {run}
    /\ \A i \in 1..Len(trace) :
          trace[i] \in Executions =>
              \E j \in 1..(i - 1) :
                  /\ trace[j] = "clear_dir"
                  /\ \A k \in (j + 1)..(i - 1) : trace[k] \notin Executions

\* C5 as amended: the directory is deleted and recreated once per run,
\* directly before the in-process execution, and only in runs whose
\* metrics parsed; the subprocess runs in the directory as the failed
\* in-process execution left it; from the clearing to the end of the run
\* the directory holds only images of that run, and so does the page.
C5_ClearedBeforeExecution ==
    /\ Count({"clear_dir"}) <= 1
    /\ \A i \in 1..Len(trace) :
          /\ trace[i] \in InProcessRuns => (i > 1 /\ trace[i - 1] = "clear_dir")
          /\ trace[i] \in SubprocessRuns => (i > 1 /\ trace[i - 1] = "runpy_failed")
          /\ trace[i] = "clear_dir" => (i > 1 /\ trace[i - 1] = "metrics_parsed")
    /\ Occurs("clear_dir") => (viz_dir.exists /\ viz_dir.images \subseteq {run})
    /\ shown.images \subseteq {run}

\* C5's case: a second run, started over the images of the first, rendered
\* an image of its own that the subprocess wrote.
C5_Witness ==
    /\ run = 2
    /\ Occurs("subprocess_ok")
    /\ shown.images = {2}

\* ------------------------------------------------------------------------
\* C6: the messages of a failed run
\* ------------------------------------------------------------------------

\* C6 as claimed: a run that ends in a failure has written exactly one
\* error to the page, the "Analysis failed" of the top-level handler, and
\* no other layer ever writes an error of its own.
C6_SingleFailureMessage ==
    /\ \A i \in 1..Len(ErrorMessages) : ErrorMessages[i] = AnalysisFailed
    /\ outcome \in {"failed", "halted"} => ErrorMessages = <<AnalysisFailed>>

\* ------------------------------------------------------------------------
\* C9: the stages of the crew
\* ------------------------------------------------------------------------

IsTask(e) == \E i \in 1..Len(tasks) : tasks[i] = e

\* C9: the stages run once each, in the order of their declaration, each
\* with the results of all the stages it names as its context; every
\* context stage stands in front of its consumer; and a failed model call
\* ends the run with no stage run again.
C9_StagesInOrder ==
    /\ Len(executed) <= Len(tasks)
    /\ \A i \in 1..Len(executed) :
          /\ executed[i].task = tasks[i]
          /\ executed[i].ctx = context(tasks[i])
    /\ \A i \in 1..Len(tasks) : context(tasks[i]) \subseteq {tasks[j] : j \in 1..(i - 1)}
    /\ SelectSeq(trace, IsTask) = SubSeq(tasks, 1, Len(executed))
    /\ outcome \in {"completed", "halted"} => Len(executed) = Len(tasks)
    /\ Occurs("model_call_failed") =>
          /\ LastEvent = "model_call_failed"
          /\ Count({"model_call_failed"}) = 1
          /\ outcome = "failed"
          /\ pc = "idle"
          /\ Len(executed) < Len(tasks)

\* C9's case: the model call of the fourth stage failed after the first
\* three had run.
C9_Witness ==
    /\ LastEvent = "model_call_failed"
    /\ Len(executed) = 3
    /\ outcome = "failed"

\* ------------------------------------------------------------------------
\* C10: text without JSON
\* ------------------------------------------------------------------------

\* Nothing in the text parses: not the whole text, not the fenced
\* interior, not the span of the braces (or there is none).
NoParsableJSON(t) ==
    /\ ~Strategy1(t).ok
    /\ ~Strategy2(t).ok
    /\ ~Strategy3(t).ok

\* C10: for the output of the annotation stage in which nothing parses,
\* the normalizer raises and returns no value, and the run ends there with
\* nothing rendered.
C10_UnparsableHalts ==
    (cj # NotCalled /\ NoParsableJSON(raw)) =>
        /\ cj.kind = "raise"
        /\ cj.value = <<>>
        /\ LastEvent = "metrics_failed"
        /\ pc = "idle"
        /\ outcome = "halted"
        /\ shown = NothingShown

\* C10's case: an output without any brace was handed to the normalizer.
C10_Witness ==
    /\ cj # NotCalled
    /\ raw = <<"x">>
    /\ cj.exc = "ValueError"
    /\ outcome = "halted"

=============================================================================
